---- MODULE Spec2Model ----
(***************************************************************************)
(* Search harvesting pipeline of xiaohongshu_mcp_python:                   *)
(*   actions/search_model.py  filter translator                            *)
(*   actions/search.py        SearchAction.search, the item normalizer,    *)
(*                            the state-blob parser and _apply_filters     *)
(*                                                                         *)
(* Strings of the source that are not ASCII are written in pinyin:         *)
(*   zonghe = sort "general" (tags_index 1), zuixin = "latest",            *)
(*   zuiduo_dianzan / zuiduo_pinglun / zuiduo_shoucang = most liked /      *)
(*   most commented / most collected, buxian = "unlimited",                *)
(*   shipin = video, tuwen = image-text, yitian_nei / yizhou_nei /         *)
(*   bannian_nei = within a day / a week / half a year, yikanguo /         *)
(*   weikanguo / yiguanzhu = seen / unseen / followed, tongcheng = same    *)
(*   city, fujin = nearby, bucunzai = a label that is in no group.         *)
(***************************************************************************)
EXTENDS Integers, Sequences, FiniteSets, TLC

VARIABLES
    callNo,            \* number of search calls started on the page
    pc,                \* position of the running search coroutine
    max_items,         \* argument max_items of the running call
    filters,           \* argument filters: <<>> is None, <<f>> a FilterOption
    internal_filters,  \* local internal_filters of search (line 83)
    click_i,           \* position of the click loop in internal_filters
    clicked,           \* controls activated in the filter panel, in order
    hovered,           \* the filter control has been hovered in this call
    listeners,         \* calls whose handle_response is attached to the page
    inflight,          \* per call: handle_response tasks awaiting response.json()
    all_feeds,         \* per call: the closure cell all_feeds
    seen_ids,          \* per call: the closure cell seen_ids
    offered,           \* per call: distinct feeds in the order first offered
    dup_rejected,      \* an offer of the running call had an id already seen
    missed,            \* a search-API response was emitted during the running
                       \* call, after its navigation, with no listener attached
    delivered,         \* the response or state blob a producer was handed last
                       \* (followed in SpecProducers only)
    tool,              \* the call of the tool xiaohongshu_search_feeds
                       \* (followed in SpecTool only)
    tags,              \* the call of normalize_tags (followed in SpecTags only)
    outcome,           \* "none", "returned" or "raised" for the last call
    result             \* the SearchResult of the last call

vars == <<callNo, pc, max_items, filters, internal_filters, click_i, clicked,
          hovered, listeners, inflight, all_feeds, seen_ids, offered,
          dup_rejected, missed, delivered, tool, tags, outcome, result>>

(***************************************************************************)
(* Bounds of the model.                                                    *)
(***************************************************************************)
MaxCalls == 2
MaxInflight == 1
MaxBatch == 2
MaxItemsBound == 2
MaxProbeIndex == 7
MaxTags == 2
MaxPending == 2

Calls == 1..MaxCalls

(***************************************************************************)
(* Generic helpers.                                                        *)
(***************************************************************************)
IsPrefix(s, t) == Len(s) <= Len(t) /\ SubSeq(t, 1, Len(s)) = s

\* the first n elements of s; none when n <= 0
Take(s, n) == IF n <= 0 THEN <<>> ELSE SubSeq(s, 1, IF n < Len(s) THEN n ELSE Len(s))

\* Python's s[:n]: a negative n counts from the end of the list
PySliceTo(s, n) ==
    IF n >= 0
    THEN SubSeq(s, 1, IF n < Len(s) THEN n ELSE Len(s))
    ELSE SubSeq(s, 1, IF Len(s) + n > 0 THEN Len(s) + n ELSE 0)

\* s without its first element equal to x (Python's list.remove)
RECURSIVE ListRemove(_, _)
ListRemove(s, x) ==
    IF s = <<>> THEN <<>>
    ELSE IF Head(s) = x THEN Tail(s)
    ELSE <<Head(s)>> \o ListRemove(Tail(s), x)

\* the sequences of at most n different elements of S
BoundedSeqs(S, n) ==
    UNION {{s \in [1..k -> S] : \A i, j \in 1..k : i # j => s[i] # s[j]} : k \in 0..n}

(***************************************************************************)
(* search_model.py: the filter translator.                                 *)
(***************************************************************************)
NoneValue == "None"

InternalFilterOption(f, t, text) ==
    [filters_index |-> f, tags_index |-> t, text |-> text]

FILTER_OPTIONS_MAP ==
    [g \in 1..5 |->
        CASE g = 1 -> << InternalFilterOption(1, 1, "zonghe"),
                         InternalFilterOption(1, 2, "zuixin"),
                         InternalFilterOption(1, 3, "zuiduo_dianzan"),
                         InternalFilterOption(1, 4, "zuiduo_pinglun"),
                         InternalFilterOption(1, 5, "zuiduo_shoucang") >>
          [] g = 2 -> << InternalFilterOption(2, 1, "buxian"),
                         InternalFilterOption(2, 2, "shipin"),
                         InternalFilterOption(2, 3, "tuwen") >>
          [] g = 3 -> << InternalFilterOption(3, 1, "buxian"),
                         InternalFilterOption(3, 2, "yitian_nei"),
                         InternalFilterOption(3, 3, "yizhou_nei"),
                         InternalFilterOption(3, 4, "bannian_nei") >>
          [] g = 4 -> << InternalFilterOption(4, 1, "buxian"),
                         InternalFilterOption(4, 2, "yikanguo"),
                         InternalFilterOption(4, 3, "weikanguo"),
                         InternalFilterOption(4, 4, "yiguanzhu") >>
          [] g = 5 -> << InternalFilterOption(5, 1, "buxian"),
                         InternalFilterOption(5, 2, "tongcheng"),
                         InternalFilterOption(5, 3, "fujin") >> ]

\* FilterOption: five optional fields, each None, "" or a label
FilterOption(s, n, p, c, l) ==
    [sort_by |-> s, note_type |-> n, publish_time |-> p,
     search_scope |-> c, location |-> l]

\* FilterOption() with no argument: the field defaults
DefaultFilterOption == FilterOption("zonghe", "buxian", "buxian", "buxian", "buxian")

\* a lookup that returns the first option of the group for every label found
find_first_option(filters_index, text) ==
    IF filters_index \notin DOMAIN FILTER_OPTIONS_MAP THEN <<>>
    ELSE LET options == FILTER_OPTIONS_MAP[filters_index]
         IN  IF \E k \in 1..Len(options) : options[k].text = text
             THEN <<options[1]>> ELSE <<>>

\* find_internal_option: <<option>> when found, <<>> when it raises ValueError
find_internal_option(filters_index, text) ==
    IF filters_index \notin DOMAIN FILTER_OPTIONS_MAP THEN <<>>
    ELSE LET options == FILTER_OPTIONS_MAP[filters_index]
             hits == {k \in 1..Len(options) : options[k].text = text}
         IN  IF hits = {} THEN <<>>
             ELSE <<options[CHOOSE k \in hits : \A j \in hits : k <= j]>>

\* a mapping that lists the fields from location to sort_by
FilterMappingReversed(f) ==
    << <<f.location, 5>>, <<f.search_scope, 4>>, <<f.publish_time, 3>>,
       <<f.note_type, 2>>, <<f.sort_by, 1>> >>

\* the list `mapping` of convert_to_internal_filters: (value, index) pairs
FilterMapping(f) ==
    << <<f.sort_by, 1>>, <<f.note_type, 2>>, <<f.publish_time, 3>>,
       <<f.search_scope, 4>>, <<f.location, 5>> >>

\* a test that takes the empty string for a set field
TruthyNotNone(value) == value # NoneValue

\* Python truthiness of a field value: None and "" are false
Truthy(value) == value # NoneValue /\ value # ""

\* a loop that skips a field whose label is unknown and goes on
RECURSIVE ConvertLoopSkip(_, _, _)
ConvertLoopSkip(mapping, k, acc) ==
    IF k > Len(mapping) THEN [raised |-> FALSE, list |-> acc]
    ELSE ConvertLoopSkip(mapping, k + 1,
             IF mapping[k][1] # NoneValue /\ mapping[k][1] # ""
             THEN acc \o find_internal_option(mapping[k][2], mapping[k][1])
             ELSE acc)

\* the loop of convert_to_internal_filters from position k on, acc so far
RECURSIVE ConvertLoop(_, _, _)
ConvertLoop(mapping, k, acc) ==
    IF k > Len(mapping) THEN [raised |-> FALSE, list |-> acc]
    ELSE LET value == mapping[k][1]
             index == mapping[k][2]
         IN  IF Truthy(value)
             THEN LET internal == find_internal_option(index, value)
                  IN  IF internal = <<>>
                      THEN [raised |-> TRUE, list |-> <<>>]
                      ELSE ConvertLoop(mapping, k + 1, acc \o internal)
             ELSE ConvertLoop(mapping, k + 1, acc)

\* convert_to_internal_filters: raised = TRUE stands for the ValueError
convert_to_internal_filters(filter_option) ==
    ConvertLoop(FilterMapping(filter_option), 1, <<>>)

\* a validation whose upper test of tags_index is off by one
validate_off_by_one(filter_opt) ==
    /\ filter_opt.filters_index \in DOMAIN FILTER_OPTIONS_MAP
    /\ filter_opt.tags_index >= 1
    /\ filter_opt.tags_index <= Len(FILTER_OPTIONS_MAP[filter_opt.filters_index]) + 1

\* validate_internal_filter_option: TRUE when it returns, FALSE when it raises
validate_internal_filter_option(filter_opt) ==
    IF filter_opt.filters_index < 1 \/ filter_opt.filters_index > 5 THEN FALSE
    ELSE IF filter_opt.filters_index \notin DOMAIN FILTER_OPTIONS_MAP THEN FALSE
    ELSE LET max_tag_index == Len(FILTER_OPTIONS_MAP[filter_opt.filters_index])
         IN  ~(filter_opt.tags_index < 1 \/ filter_opt.tags_index > max_tag_index)

(***************************************************************************)
(* search.py: _apply_filters.  The for loop iterates the list it removes   *)
(* from: Python's list iterator keeps a position i and stops as soon as i  *)
(* is no index of the (possibly shortened) list.                           *)
(***************************************************************************)
\* the for loop of _apply_filters at iterator position i; checked is the set of
\* options handed to validate_internal_filter_option so far
RECURSIVE ApplyFiltersLoop(_, _, _)
ApplyFiltersLoop(list, i, checked) ==
    IF i >= Len(list) THEN [raised |-> FALSE, list |-> list, checked |-> checked]
    ELSE LET filter_option == list[i + 1]
         IN  IF filter_option.tags_index # 1
             THEN \* a ValueError of the validation is logged, the loop continues
                  \* and the option stays in the list
                  ApplyFiltersLoop(list, i + 1, checked \cup {filter_option})
             ELSE ApplyFiltersLoop(ListRemove(list, filter_option), i + 1, checked)

\* an _apply_filters that takes the ValueError of the translation itself and
\* returns an empty list
apply_filters_swallow(f) ==
    IF convert_to_internal_filters(f).raised
    THEN [raised |-> FALSE, list |-> <<>>, checked |-> {}]
    ELSE ApplyFiltersLoop(convert_to_internal_filters(f).list, 0, {})

\* _apply_filters: the ValueError of convert_to_internal_filters propagates
apply_filters(f) ==
    LET converted == convert_to_internal_filters(f)
    IN  IF converted.raised
        THEN [raised |-> TRUE, list |-> <<>>, checked |-> {}]
        ELSE ApplyFiltersLoop(converted.list, 0, {})

(***************************************************************************)
(* search.py: _convert_item_to_feed.  A raw record is a dict whose keys    *)
(* may be absent (NoKey).  <<>> stands for the return value None.          *)
(***************************************************************************)
NoKey == "<absent>"

\* a raw item: id (NoKey or a string) and noteCard
\*   noteCard.kind: "absent" (no key), "null" (JSON null) or "dict"
RawItem(id, cardKind, title) ==
    [id |-> id, noteCard |-> [kind |-> cardKind, displayTitle |-> title]]

\* dict.get(key, default) on a key that is absent or holds v
DictGet(v, default) == IF v = NoKey THEN default ELSE v

Feed(id, display_title) == [id |-> id, display_title |-> display_title]

convert_item_to_feed(item) ==
    IF item.noteCard.kind = "null"
    THEN <<>>     \* note_card_data is None: .get raises, the except returns None
    ELSE LET display_title ==
                 IF item.noteCard.kind = "absent" THEN ""   \* get("noteCard", {})
                 ELSE DictGet(item.noteCard.displayTitle, "")
         IN  << Feed(DictGet(item.id, ""), display_title) >>

(***************************************************************************)
(* The two producers of search: the loop of handle_response (lines 59-65)  *)
(* and the state-blob parse and merge (lines 142-147, 220-255).  acc is    *)
(* the pair of closure cells [all_feeds, seen_ids].                        *)
(***************************************************************************)
Acc(feeds, seen) == [all_feeds |-> feeds, seen_ids |-> seen]

\* one offer that forgets to test seen_ids
AppendAlways(acc, feed) ==
    Acc(Append(acc.all_feeds, feed), acc.seen_ids \cup {feed.id})

\* one offer that puts a new item in front
AppendFront(acc, feed) ==
    IF feed.id \notin acc.seen_ids
    THEN Acc(<<feed>> \o acc.all_feeds, acc.seen_ids \cup {feed.id})
    ELSE acc

\* one offer that appends a new item and does not record its id
AppendUnrecorded(acc, feed) ==
    IF feed.id \notin acc.seen_ids
    THEN Acc(Append(acc.all_feeds, feed), acc.seen_ids)
    ELSE acc

\* `if feed.id not in seen_ids: seen_ids.add(feed.id); all_feeds.append(feed)`
AddIfNew(acc, feed) ==
    IF feed.id \notin acc.seen_ids
    THEN Acc(Append(acc.all_feeds, feed), acc.seen_ids \cup {feed.id})
    ELSE acc

\* a loop that gives up the rest of the items at the first record that does
\* not normalize
RECURSIVE HandleItemsAbort(_, _)
HandleItemsAbort(items, acc) ==
    IF items = <<>> THEN acc
    ELSE IF convert_item_to_feed(Head(items)) = <<>> THEN acc
    ELSE HandleItemsAbort(Tail(items), AddIfNew(acc, convert_item_to_feed(Head(items))[1]))

\* the for loop of handle_response over data["data"]["items"]
RECURSIVE HandleItems(_, _)
HandleItems(items, acc) ==
    IF items = <<>> THEN acc
    ELSE LET feed == convert_item_to_feed(Head(items))
         IN  IF feed # <<>>
             THEN HandleItems(Tail(items), AddIfNew(acc, feed[1]))
             ELSE HandleItems(Tail(items), acc)

\* the body of a search-API response as response.json() delivers it:
\*   "json_error" (json() raises), "no_items" (no data.items), "bad_shape"
\*   (data["data"] or its items of a type that line 56 or 59 cannot take:
\*   TypeError) or "items"
ResponseBody(kind, items) == [kind |-> kind, items |-> items]

\* a test of line 52 that does not look at the status
MatchesAnyStatus(url_match, status) == url_match

\* line 52: "/api/sns/web/v1/search/notes" in response.url and status == 200
Matches(url_match, status) == url_match /\ status = 200

\* where handle_response fails on a body: "none" when it does not
FailureOf(body) ==
    CASE body.kind = "json_error" -> "json"      \* line 55
      [] body.kind = "bad_shape" -> "shape"      \* lines 56-59
      [] OTHER -> "none"

\* a handle_response without its except clauses
ListenerHandlerNone(at) == "escape"

\* the except clause of handle_response that takes a failure at position at
ListenerHandler(at) ==
    IF at \in {"json", "shape"} THEN "except_inner"   \* line 66
    ELSE "except_outer"                                \* line 68

\* handle_response after `await response.json()`; every failure is swallowed
handle_response(body, acc) ==
    IF body.kind = "items" THEN HandleItems(body.items, acc) ELSE acc

\* the for loop of _parse_search_results_from_state: the feeds that convert
RECURSIVE ParseFeeds(_)
ParseFeeds(feeds_value) ==
    IF feeds_value = <<>> THEN <<>>
    ELSE convert_item_to_feed(Head(feeds_value)) \o ParseFeeds(Tail(feeds_value))

\* the value of page.evaluate(initial_state_js):
\*   "empty" (the string ""), "malformed" (no JSON, or no JSON object),
\*   "no_search" (no search.feeds._value) or "feeds" (with that list)
StateBlob(kind, feeds_value) == [kind |-> kind, feeds_value |-> feeds_value]

\* a sink whose failure is raised to its caller
save_raises(sink_fails) == IF sink_fails THEN "raised" ELSE "saved"

\* _save_search_data_to_file: its try spans the whole body and its except
\* takes every Exception (lines 359-409); it returns in both cases
save_search_data_to_file(sink_fails) == IF sink_fails THEN "logged" ELSE "saved"

\* _parse_search_results_from_state(...).items; sink_fails tells whether the
\* writing of the files fails.  An exception out of line 242 would be taken
\* by the except of line 253, which returns no item
parse_search_results_from_state(blob, sink_fails) ==
    CASE blob.kind = "feeds" ->
            IF save_search_data_to_file(sink_fails) = "raised" THEN <<>>
            ELSE ParseFeeds(blob.feeds_value)
      [] OTHER -> <<>>

\* the merge loop of search over initial_result.items
RECURSIVE MergeInitial(_, _)
MergeInitial(items, acc) ==
    IF items = <<>> THEN acc
    ELSE MergeInitial(Tail(items), AddIfNew(acc, Head(items)))

\* a merge that replaces the accumulator by the items of the blob
MergeReplacing(blob, sink_fails, acc) ==
    LET items == parse_search_results_from_state(blob, sink_fails)
    IN  Acc(items, {items[k].id : k \in 1..Len(items)})

\* lines 142-147: `if result:` parse and merge
merge_initial_state(blob, sink_fails, acc) ==
    IF blob.kind = "empty" THEN acc
    ELSE MergeInitial(parse_search_results_from_state(blob, sink_fails), acc)

(***************************************************************************)
(* History of the offers, kept apart from the code's cells: the feeds      *)
(* offered to the accumulator, reduced to the first offer of each id.      *)
(***************************************************************************)
RECURSIVE FirstOffers(_, _)
FirstOffers(history, feeds) ==
    IF feeds = <<>> THEN history
    ELSE FirstOffers(
            IF \E k \in 1..Len(history) : history[k].id = Head(feeds).id
            THEN history ELSE Append(history, Head(feeds)),
            Tail(feeds))

\* the feeds a response body offers (the records that normalize)
OffersOfBody(body) == IF body.kind = "items" THEN ParseFeeds(body.items) ELSE <<>>

\* the feeds a state blob offers
OffersOfBlob(blob) == IF blob.kind = "feeds" THEN ParseFeeds(blob.feeds_value) ELSE <<>>

(***************************************************************************)
(* Inputs.                                                                 *)
(***************************************************************************)
\* raw records as the platform may deliver them
RawItems ==
    { RawItem("a", "dict", "t1"),      \* two records of one id with
      RawItem("a", "dict", "t2"),      \*   different payloads
      RawItem(NoKey, "dict", "t1"),    \* no id key
      RawItem("b", "absent", NoKey),   \* no noteCard key
      RawItem("n", "null", NoKey) }    \* noteCard: null

\* a batch of records: at most MaxBatch records, no record twice (two records
\* of one id are in RawItems)
Batches == BoundedSeqs(RawItems, MaxBatch)

ResponseBodies ==
    {ResponseBody("json_error", <<>>), ResponseBody("no_items", <<>>),
     ResponseBody("bad_shape", <<>>)}
        \cup {ResponseBody("items", b) : b \in Batches}

StateBlobs ==
    {StateBlob("empty", <<>>), StateBlob("malformed", <<>>), StateBlob("no_search", <<>>)}
        \cup {StateBlob("feeds", b) : b \in Batches}

\* max_items is any int; -1 stands for the negative ones
MaxItemsInputs == (-1)..MaxItemsBound

FieldValues(g) ==
    {NoneValue, "", "bucunzai"} \cup {FILTER_OPTIONS_MAP[g][k].text : k \in 1..Len(FILTER_OPTIONS_MAP[g])}

\* every FilterOption, also those that pydantic's model_construct or an
\* assignment can build with a label of no group
AllFilterOptions ==
    {FilterOption(s, n, p, c, l) :
        s \in FieldValues(1), n \in FieldValues(2), p \in FieldValues(3),
        c \in FieldValues(4), l \in FieldValues(5)}

\* the filters the harvest specification is run with
SearchFilterInputs ==
    { <<>>,
      <<FilterOption("zuixin", "buxian", "buxian", NoneValue, "fujin")>>,
      <<FilterOption("zuixin", "bucunzai", NoneValue, NoneValue, NoneValue)>> }

\* what a producer has worked on last: a response of the page (src
\* "response": url, status, and the body response.json() gave) or the outcome
\* of lines 110-140 (src "state": the wait for window.__INITIAL_STATE__
\* "ready" or "timeout", the blob, and whether the writing of the files
\* fails).  state: "handled", or "raised" when an exception left the
\* producer
Delivery(src, url_match, status, body, wait, blob, sink_fails) ==
    [src |-> src, url_match |-> url_match, status |-> status, body |-> body,
     wait |-> wait, blob |-> blob, sink_fails |-> sink_fails,
     state |-> "handled"]

NoDelivery ==
    Delivery("none", FALSE, 0, ResponseBody("no_items", <<>>), "ready",
             StateBlob("empty", <<>>), FALSE)

\* a response handle_response worked on; the body is the one json() gave,
\* and none when json() was not called
ResponseDelivery(url_match, status, body) ==
    Delivery("response", url_match, status, body, "ready", StateBlob("empty", <<>>), FALSE)

\* the outcome of lines 110-140 the extraction worked on
StateDelivery(wait, blob, sink_fails) ==
    Delivery("state", FALSE, 0, ResponseBody("no_items", <<>>), wait, blob, sink_fails)

\* no call of the tool xiaohongshu_search_feeds is followed
NoTool ==
    [pc |-> "none", filterStr |-> "none", username |-> NoneValue, max_items |-> 0,
     login |-> "none", browser |-> "none", events |-> <<>>, ret |-> "none"]

\* no call of normalize_tags is followed
NoTags ==
    [pc |-> "none", input |-> [kind |-> "None", items |-> <<>>],
     output |-> <<>>, again |-> <<>>]

\* what an awaited browser step raises when it fails
AwaitErrors == {"PlaywrightTimeoutError", "Exception"}

(***************************************************************************)
(* The results search returns.                                             *)
(***************************************************************************)
SearchResult(kind, items, has_more, total) ==
    [kind |-> kind, items |-> items, has_more |-> has_more, total |-> total]

NoResult == SearchResult("none", <<>>, FALSE, 0)

\* lines 96-100: SearchResult(success=False, message=str(e), feeds=[]);
\* the fields it leaves out take the defaults of SearchResultDefaults
SearchResultDefaults == [items |-> <<>>, has_more |-> FALSE, total |-> 0]

FilterErrorResult ==
    SearchResult("filter_error", SearchResultDefaults.items,
                 SearchResultDefaults.has_more, SearchResultDefaults.total)

\* lines 168-169: if len(all_feeds) > max_items: all_feeds = all_feeds[:max_items]
Truncate(feeds, n) == IF Len(feeds) > n THEN PySliceTo(feeds, n) ELSE feeds

\* a normal return that reports no further results
NormalResultExhausted(feeds) == SearchResult("normal", feeds, FALSE, Len(feeds))

\* lines 172-176
NormalResult(feeds) == SearchResult("normal", feeds, TRUE, Len(feeds))

\* a failure path that returns no item
FailureResultEmpty(kind, feeds) == SearchResult(kind, <<>>, FALSE, 0)

\* a failure path whose total counts the items it returns
FailureResultCounted(kind, feeds) == SearchResult(kind, feeds, FALSE, Len(feeds))

\* lines 180 and 185
FailureResult(kind, feeds) == SearchResult(kind, feeds, FALSE, 0)

(***************************************************************************)
(* Which except clause of search takes an exception raised at position at. *)
(***************************************************************************)
FilterBlock == {"filters", "hover", "panel_wait", "click", "click_delay"}
StateBlock == {"state_wait", "state_eval"}

\* an outer handler that takes timeouts only
HandlerTimeoutOnly(at, exc) ==
    CASE at \in FilterBlock /\ exc = "ValueError" -> "except_ValueError"
      [] at \in StateBlock -> "except_state"
      [] exc = "PlaywrightTimeoutError" -> "except_timeout"
      [] OTHER -> "escape"

Handler(at, exc) ==
    CASE at \in FilterBlock /\ exc = "ValueError" -> "except_ValueError"  \* line 94
      [] at \in StateBlock -> "except_state"                              \* line 149
      [] exc = "PlaywrightTimeoutError" -> "except_timeout"               \* line 178
      [] OTHER -> "except_Exception"                                      \* line 181

(***************************************************************************)
(* The state machine.  pc names the await the coroutine of search is       *)
(* suspended at ("filters" and "register" are the synchronous code between *)
(* two awaits, during which no listener of the call is attached).          *)
(***************************************************************************)
AwaitPcs == {"goto", "load1", "hover", "panel_wait", "click", "click_delay",
             "load2", "state_wait", "state_eval",
             "scroll", "scroll_delay", "load3", "stable"}

Init ==
    /\ callNo = 0
    /\ pc = "idle"
    /\ max_items = 0
    /\ filters = <<>>
    /\ internal_filters = <<>>
    /\ click_i = 0
    /\ clicked = <<>>
    /\ hovered = FALSE
    /\ listeners = {}
    /\ inflight = [c \in Calls |-> 0]
    /\ all_feeds = [c \in Calls |-> <<>>]
    /\ seen_ids = [c \in Calls |-> {}]
    /\ offered = [c \in Calls |-> <<>>]
    /\ dup_rejected = FALSE
    /\ missed = FALSE
    /\ delivered = NoDelivery
    /\ tool = NoTool
    /\ tags = NoTags
    /\ outcome = "none"
    /\ result = NoResult

\* a finally clause that leaves the listener attached
KeepListener(ls, c) == ls

\* lines 186-191: page.remove_listener; its own failure is swallowed
RemoveListener(ls, c) == ls \ {c}

\* the coroutine moves on to its next await
Proceed(next) ==
    /\ pc' = next
    /\ UNCHANGED <<result, outcome, listeners, all_feeds>>

\* a return statement of search, then the finally clause
Return(res) ==
    /\ result' = res
    /\ outcome' = "returned"
    /\ pc' = "done"
    /\ listeners' = RemoveListener(listeners, callNo)

\* an exception no except clause takes leaves search; the finally clause runs
Escape ==
    /\ result' = NoResult
    /\ outcome' = "raised"
    /\ pc' = "done"
    /\ listeners' = RemoveListener(listeners, callNo)
    /\ UNCHANGED all_feeds

\* a loop test that scrolls once more when the count has reached max_items
LoopTestInclusive(feeds) ==
    IF Len(feeds) <= max_items
    THEN /\ pc' = "scroll"
         /\ all_feeds' = [all_feeds EXCEPT ![callNo] = feeds]
         /\ UNCHANGED <<result, outcome, listeners>>
    ELSE /\ all_feeds' = [all_feeds EXCEPT ![callNo] = Truncate(feeds, max_items)]
         /\ Return(NormalResult(Truncate(feeds, max_items)))

\* lines 153 and 167-176 with feeds the current content of all_feeds: the
\* test of the while loop, then another scroll or the truncation and return
LoopTest(feeds) ==
    IF Len(feeds) < max_items
    THEN /\ pc' = "scroll"
         /\ all_feeds' = [all_feeds EXCEPT ![callNo] = feeds]
         /\ UNCHANGED <<result, outcome, listeners>>
    ELSE /\ all_feeds' = [all_feeds EXCEPT ![callNo] = Truncate(feeds, max_items)]
         /\ Return(NormalResult(Truncate(feeds, max_items)))

\* exception exc is raised at the current position
Throw(exc) ==
    LET h == Handler(pc, exc)
    IN  CASE h = "except_ValueError" ->
                Return(FilterErrorResult) /\ UNCHANGED all_feeds
          [] h = "except_state" ->
                LoopTest(all_feeds[callNo])
          [] h = "except_timeout" ->
                Return(FailureResult("timeout", all_feeds[callNo])) /\ UNCHANGED all_feeds
          [] h = "except_Exception" ->
                Return(FailureResult("error", all_feeds[callNo])) /\ UNCHANGED all_feeds
          [] OTHER -> Escape

\* search(keyword, max_items, filters) is called; lines 45-46.  The cells of
\* the calls that have returned are read by nothing any more (only a pending
\* handle_response of theirs can still write them): their content is dropped
StartCall(m, f) ==
    /\ pc \in {"idle", "done"}
    /\ callNo < MaxCalls
    /\ callNo' = callNo + 1
    /\ pc' = "goto"
    /\ max_items' = m
    /\ filters' = f
    /\ internal_filters' = <<>>
    /\ click_i' = 0
    /\ clicked' = <<>>
    /\ hovered' = FALSE
    /\ all_feeds' = [c \in Calls |-> <<>>]
    /\ seen_ids' = [c \in Calls |-> {}]
    /\ offered' = [c \in Calls |-> <<>>]
    /\ dup_rejected' = FALSE
    /\ missed' = FALSE
    /\ outcome' = "none"
    /\ result' = NoResult
    /\ UNCHANGED <<listeners, inflight, delivered, tool, tags>>

\* line 76: page.goto returns
Goto ==
    /\ pc = "goto"
    /\ Proceed("load1")
    /\ UNCHANGED <<callNo, max_items, filters, internal_filters, click_i, clicked,
                   hovered, inflight, seen_ids, offered, dup_rejected, missed, delivered,
                   tool, tags>>

\* line 79: wait_for_load_state returns
WaitLoad1 ==
    /\ pc = "load1"
    /\ Proceed("filters")
    /\ UNCHANGED <<callNo, max_items, filters, internal_filters, click_i, clicked,
                   hovered, inflight, seen_ids, offered, dup_rejected, missed, delivered,
                   tool, tags>>

\* lines 81-83: `if filters:` and _apply_filters
ApplyFilters ==
    /\ pc = "filters"
    /\ IF filters = <<>>
       THEN Proceed("register") /\ UNCHANGED internal_filters
       ELSE LET r == apply_filters(filters[1])
            IN  IF r.raised
                THEN Throw("ValueError") /\ UNCHANGED internal_filters
                ELSE internal_filters' = r.list /\ Proceed("hover")
    /\ UNCHANGED <<callNo, max_items, filters, click_i, clicked,
                   hovered, inflight, seen_ids, offered, dup_rejected, missed, delivered,
                   tool, tags>>

\* line 84: hover on div.filter returns
Hover ==
    /\ pc = "hover"
    /\ hovered' = TRUE
    /\ Proceed("panel_wait")
    /\ UNCHANGED <<callNo, max_items, filters, internal_filters, click_i, clicked,
                   inflight, seen_ids, offered, dup_rejected, missed, delivered,
                   tool, tags>>

\* line 85: the filter panel is there; line 86: the for loop starts
PanelWait ==
    /\ pc = "panel_wait"
    /\ click_i' = 1
    /\ Proceed(IF internal_filters = <<>> THEN "register" ELSE "click")
    /\ UNCHANGED <<callNo, max_items, filters, internal_filters, clicked,
                   hovered, inflight, seen_ids, offered, dup_rejected, missed, delivered,
                   tool, tags>>

\* lines 87-92: the control of internal_filters[click_i] is clicked
Click ==
    /\ pc = "click"
    /\ clicked' = Append(clicked, internal_filters[click_i])
    /\ Proceed("click_delay")
    /\ UNCHANGED <<callNo, max_items, filters, internal_filters, click_i,
                   hovered, inflight, seen_ids, offered, dup_rejected, missed, delivered,
                   tool, tags>>

\* line 93: add_random_delay returns; the for loop goes on or ends
ClickDelay ==
    /\ pc = "click_delay"
    /\ click_i' = click_i + 1
    /\ Proceed(IF click_i + 1 > Len(internal_filters) THEN "register" ELSE "click")
    /\ UNCHANGED <<callNo, max_items, filters, internal_filters, clicked,
                   hovered, inflight, seen_ids, offered, dup_rejected, missed, delivered,
                   tool, tags>>

\* line 103: page.on("response", handle_response)
RegisterListener ==
    /\ pc = "register"
    /\ listeners' = listeners \cup {callNo}
    /\ pc' = "load2"
    /\ UNCHANGED <<callNo, max_items, filters, internal_filters, click_i, clicked,
                   hovered, inflight, all_feeds, seen_ids, offered, dup_rejected,
                   missed, delivered, outcome, result,
                   tool, tags>>

\* line 106: wait_for_load_state returns
WaitLoad2 ==
    /\ pc = "load2"
    /\ Proceed("state_wait")
    /\ UNCHANGED <<callNo, max_items, filters, internal_filters, click_i, clicked,
                   hovered, inflight, seen_ids, offered, dup_rejected, missed, delivered,
                   tool, tags>>

\* line 110: window.__INITIAL_STATE__ is defined
StateWait ==
    /\ pc = "state_wait"
    /\ Proceed("state_eval")
    /\ UNCHANGED <<callNo, max_items, filters, internal_filters, click_i, clicked,
                   hovered, inflight, seen_ids, offered, dup_rejected, missed, delivered,
                   tool, tags>>

\* lines 140-148: page.evaluate returns blob; parse, merge; then the loop test
StateEval(blob, sink_fails) ==
    /\ pc = "state_eval"
    /\ LET acc == merge_initial_state(blob, sink_fails,
                                      Acc(all_feeds[callNo], seen_ids[callNo]))
       IN  /\ seen_ids' = [seen_ids EXCEPT ![callNo] = acc.seen_ids]
           /\ LoopTest(acc.all_feeds)
    /\ offered' = [offered EXCEPT ![callNo] = FirstOffers(@, OffersOfBlob(blob))]
    /\ dup_rejected' = (dup_rejected \/ Len(FirstOffers(offered[callNo], OffersOfBlob(blob)))
                                          < Len(offered[callNo]) + Len(OffersOfBlob(blob)))
    /\ UNCHANGED <<callNo, max_items, filters, internal_filters, click_i, clicked,
                   hovered, inflight, missed, delivered,
                   tool, tags>>

\* line 157: the scroll to the bottom returns
Scroll ==
    /\ pc = "scroll"
    /\ Proceed("scroll_delay")
    /\ UNCHANGED <<callNo, max_items, filters, internal_filters, click_i, clicked,
                   hovered, inflight, seen_ids, offered, dup_rejected, missed, delivered,
                   tool, tags>>

\* line 160: add_random_delay returns
ScrollDelay ==
    /\ pc = "scroll_delay"
    /\ Proceed("load3")
    /\ UNCHANGED <<callNo, max_items, filters, internal_filters, click_i, clicked,
                   hovered, inflight, seen_ids, offered, dup_rejected, missed, delivered,
                   tool, tags>>

\* line 163: wait_for_load_state returns
WaitLoad3 ==
    /\ pc = "load3"
    /\ Proceed("stable")
    /\ UNCHANGED <<callNo, max_items, filters, internal_filters, click_i, clicked,
                   hovered, inflight, seen_ids, offered, dup_rejected, missed, delivered,
                   tool, tags>>

\* a scroll iteration that ends by going back to the wait for the state blob
StableReextracts ==
    /\ pc = "stable"
    /\ pc' = "state_wait"
    /\ UNCHANGED <<callNo, max_items, filters, internal_filters, click_i, clicked,
                   hovered, listeners, inflight, all_feeds, seen_ids, offered,
                   dup_rejected, missed, delivered, outcome, result,
                   tool, tags>>

\* line 164: wait_for_page_stable returns; then the loop test of line 153
Stable ==
    /\ pc = "stable"
    /\ LoopTest(all_feeds[callNo])
    /\ UNCHANGED <<callNo, max_items, filters, internal_filters, click_i, clicked,
                   hovered, inflight, seen_ids, offered, dup_rejected, missed, delivered,
                   tool, tags>>

\* line 164: AntiBotStrategy.wait_for_page_stable(page, timeout=8000) is code
\* of utils.anti_bot; its timeout ends the wait and the iteration of the
\* scroll loop, it raises no PlaywrightTimeoutError into search
wait_for_page_stable_errors == AwaitErrors \ {"PlaywrightTimeoutError"}

\* the exceptions the step awaited at position at can raise
AwaitErrorsAt(at) ==
    IF at = "stable" THEN wait_for_page_stable_errors ELSE AwaitErrors

\* the awaited browser step the coroutine is suspended at fails with exc
AwaitRaises(exc) ==
    /\ pc \in AwaitPcs
    /\ exc \in AwaitErrorsAt(pc)
    /\ Throw(exc)
    /\ UNCHANGED <<callNo, max_items, filters, internal_filters, click_i, clicked,
                   hovered, inflight, seen_ids, offered, dup_rejected, missed, delivered,
                   tool, tags>>

\* the number of pending handle_response tasks of the calls 1..n
RECURSIVE Pending(_, _)
Pending(f, n) == IF n = 0 THEN 0 ELSE f[n] + Pending(f, n - 1)

\* lines 49-52: the page emits a response; each attached handle_response
\* starts, and goes on to `await response.json()` when url and status match
PageResponse(url_match, status) ==
    /\ listeners # {}
    /\ Pending(inflight, MaxCalls) + Cardinality(listeners) <= MaxInflight
    /\ inflight' = [c \in Calls |->
                       IF c \in listeners /\ Matches(url_match, status)
                       THEN inflight[c] + 1 ELSE inflight[c]]
    /\ UNCHANGED <<callNo, pc, max_items, filters, internal_filters, click_i,
                   clicked, hovered, listeners, all_feeds, seen_ids, offered,
                   dup_rejected, missed, delivered, outcome, result,
                   tool, tags>>

\* the awaits of lines 84-93: the navigation of lines 76-79 is over and
\* page.on of line 103 has not run yet
AwaitsBeforeRegister == {"hover", "panel_wait", "click", "click_delay"}

\* the page emits a response while search is suspended at one of the awaits
\* of lines 84-93: no handle_response is attached, nothing starts
UnheardResponse(url_match, status) ==
    /\ pc \in AwaitsBeforeRegister
    /\ callNo \notin listeners
    /\ missed' = (missed \/ (url_match /\ status = 200))
    /\ UNCHANGED <<callNo, pc, max_items, filters, internal_filters, click_i,
                   clicked, hovered, listeners, inflight, all_feeds, seen_ids,
                   offered, dup_rejected, delivered, outcome, result,
                   tool, tags>>

\* cells kept on the SearchAction: every handle_response writes those of the
\* running call
CellsShared(c) == callNo

\* the call whose closure cells a handle_response registered by call c writes
CellsOf(c) == c

\* lines 55-67: response.json() of a pending handle_response of call c ends.
\* What it writes to the cells of a call older than the last one is dropped.
ListenerComplete(c, body) ==
    /\ inflight[c] > 0
    /\ inflight' = [inflight EXCEPT ![c] = @ - 1]
    /\ LET w == CellsOf(c)
           acc == handle_response(body, Acc(all_feeds[w], seen_ids[w]))
       IN  IF w = callNo
           THEN /\ all_feeds' = [all_feeds EXCEPT ![w] = acc.all_feeds]
                /\ seen_ids' = [seen_ids EXCEPT ![w] = acc.seen_ids]
                /\ offered' = [offered EXCEPT ![w] = FirstOffers(@, OffersOfBody(body))]
                /\ dup_rejected' =
                      (dup_rejected \/ Len(FirstOffers(offered[w], OffersOfBody(body)))
                                         < Len(offered[w]) + Len(OffersOfBody(body)))
           ELSE UNCHANGED <<all_feeds, seen_ids, offered, dup_rejected>>
    /\ UNCHANGED <<callNo, pc, max_items, filters, internal_filters, click_i,
                   clicked, hovered, listeners, missed, delivered, outcome, result,
                   tool, tags>>

\* the steps of the coroutine of search
SearchStep ==
    \/ Goto \/ WaitLoad1 \/ ApplyFilters \/ Hover \/ PanelWait \/ Click
    \/ ClickDelay \/ RegisterListener \/ WaitLoad2 \/ StateWait
    \/ \E blob \in StateBlobs, sink_fails \in BOOLEAN : StateEval(blob, sink_fails)
    \/ Scroll \/ ScrollDelay \/ WaitLoad3 \/ Stable

Next ==
    \/ \E m \in MaxItemsInputs, f \in SearchFilterInputs : StartCall(m, f)
    \/ SearchStep
    \/ \E exc \in AwaitErrors : AwaitRaises(exc)
    \/ \E u \in BOOLEAN, st \in {200, 500} : PageResponse(u, st)
    \/ \E c \in Calls, body \in ResponseBodies : ListenerComplete(c, body)

Spec == Init /\ [][Next]_vars

\* the scheduling of asyncio: a coroutine whose awaited step can complete is
\* resumed; nothing obliges the page to deliver responses
FairSpec == Spec /\ WF_vars(SearchStep)

(***************************************************************************)
(* The filter phase of search alone (lines 81-100), for every FilterOption *)
(* right after the navigation of a call.                                   *)
(***************************************************************************)
InitFilters ==
    /\ callNo = 1
    /\ pc = "filters"
    /\ max_items = 0
    /\ filters \in {<<f>> : f \in AllFilterOptions}
    /\ internal_filters = <<>>
    /\ click_i = 0
    /\ clicked = <<>>
    /\ hovered = FALSE
    /\ listeners = {}
    /\ inflight = [c \in Calls |-> 0]
    /\ all_feeds = [c \in Calls |-> <<>>]
    /\ seen_ids = [c \in Calls |-> {}]
    /\ offered = [c \in Calls |-> <<>>]
    /\ dup_rejected = FALSE
    /\ missed = FALSE
    /\ delivered = NoDelivery
    /\ tool = NoTool
    /\ tags = NoTags
    /\ outcome = "none"
    /\ result = NoResult

NextFilters ==
    \/ ApplyFilters \/ Hover \/ PanelWait \/ Click \/ ClickDelay
    \/ \E exc \in AwaitErrors : AwaitRaises(exc)
    \/ \E u \in BOOLEAN, st \in {200, 500} : UnheardResponse(u, st)

SpecFilters == InitFilters /\ [][NextFilters]_vars

(***************************************************************************)
(* validate_internal_filter_option alone, for every pair of indexes of     *)
(* ProbeIndexes: internal_filters holds the option handed to it, outcome   *)
(* tells whether it returned or raised its ValueError.                     *)
(***************************************************************************)
ProbeIndexes == (-1)..MaxProbeIndex

InitValidate ==
    /\ callNo = 0
    /\ pc = "validate"
    /\ max_items = 0
    /\ filters = <<>>
    /\ internal_filters \in {<<InternalFilterOption(f, t, "probe")>> :
                                 f \in ProbeIndexes, t \in ProbeIndexes}
    /\ click_i = 0
    /\ clicked = <<>>
    /\ hovered = FALSE
    /\ listeners = {}
    /\ inflight = [c \in Calls |-> 0]
    /\ all_feeds = [c \in Calls |-> <<>>]
    /\ seen_ids = [c \in Calls |-> {}]
    /\ offered = [c \in Calls |-> <<>>]
    /\ dup_rejected = FALSE
    /\ missed = FALSE
    /\ delivered = NoDelivery
    /\ tool = NoTool
    /\ tags = NoTags
    /\ outcome = "none"
    /\ result = NoResult

\* lines 158-183: validate_internal_filter_option(internal_filters[1])
Validate ==
    /\ pc = "validate"
    /\ pc' = "validated"
    /\ outcome' = IF validate_internal_filter_option(internal_filters[1])
                  THEN "returned" ELSE "raised"
    /\ UNCHANGED <<callNo, max_items, filters, internal_filters, click_i, clicked,
                   hovered, listeners, inflight, all_feeds, seen_ids, offered,
                   dup_rejected, missed, delivered, result,
                   tool, tags>>

NextValidate == Validate

SpecValidate == InitValidate /\ [][NextValidate]_vars

(***************************************************************************)
(* The two producers in one call of search, from the registration of the   *)
(* listener (line 103) on, with what each of them worked on last kept in   *)
(* delivered.  The coroutine of search runs as in Spec; a handle_response  *)
(* is suspended at `await response.json()` between Deliver and Respond,    *)
(* and several can be suspended at once.                                   *)
(***************************************************************************)
\* the inputs of the producers: the records with an id key (the record
\* without one is followed in Spec)
ProducerBatches == BoundedSeqs({r \in RawItems : r.id # NoKey}, MaxBatch)

ProducerBodies ==
    {body \in ResponseBodies : body.kind = "items" => body.items \in ProducerBatches}

ProducerBlobs ==
    {blob \in StateBlobs : blob.kind = "feeds" => blob.feeds_value \in ProducerBatches}

InitProducers ==
    /\ callNo = 1
    /\ pc = "load2"
    /\ max_items \in MaxItemsInputs
    /\ filters = <<>>
    /\ internal_filters = <<>>
    /\ click_i = 0
    /\ clicked = <<>>
    /\ hovered = FALSE
    /\ listeners = {1}
    /\ inflight = [c \in Calls |-> 0]
    /\ all_feeds = [c \in Calls |-> <<>>]
    /\ seen_ids = [c \in Calls |-> {}]
    /\ offered = [c \in Calls |-> <<>>]
    /\ dup_rejected = FALSE
    /\ missed = FALSE
    /\ delivered = NoDelivery
    /\ tool = NoTool
    /\ tags = NoTags
    /\ outcome = "none"
    /\ result = NoResult

\* what is kept of d when the producer that worked on it ended in state st
Worked(d, st) == [d EXCEPT !.state = st]

\* lines 49-55: the page emits a response and the attached handle_response
\* starts: it is suspended at `await response.json()` when url and status
\* match, and has ended otherwise
Deliver(url_match, status) ==
    /\ callNo \in listeners
    /\ IF Matches(url_match, status)
       THEN /\ inflight[callNo] < MaxPending
            /\ inflight' = [inflight EXCEPT ![callNo] = @ + 1]
            /\ UNCHANGED delivered
       ELSE /\ delivered' = Worked(ResponseDelivery(url_match, status,
                                                    ResponseBody("no_items", <<>>)),
                                   "handled")
            /\ UNCHANGED inflight
    /\ UNCHANGED <<callNo, pc, max_items, filters, internal_filters, click_i,
                   clicked, hovered, listeners, all_feeds, seen_ids,
                   offered, dup_rejected, missed, outcome, result,
                   tool, tags>>

\* lines 55-69: response.json() of a suspended handle_response, started for
\* a response of url_match and status, gives body; the handler runs to its
\* end
Respond(url_match, status, body) ==
    /\ inflight[callNo] > 0
    /\ Matches(url_match, status)
    /\ inflight' = [inflight EXCEPT ![callNo] = @ - 1]
    /\ LET after == handle_response(body, Acc(all_feeds[callNo], seen_ids[callNo]))
           escapes == /\ FailureOf(body) # "none"
                      /\ ListenerHandler(FailureOf(body)) = "escape"
       IN  /\ all_feeds' = [all_feeds EXCEPT ![callNo] = after.all_feeds]
           /\ seen_ids' = [seen_ids EXCEPT ![callNo] = after.seen_ids]
           /\ delivered' = Worked(ResponseDelivery(url_match, status, body),
                                  IF escapes THEN "raised" ELSE "handled")
    /\ UNCHANGED <<callNo, pc, max_items, filters, internal_filters, click_i,
                   clicked, hovered, listeners, offered, dup_rejected,
                   missed, outcome, result,
                   tool, tags>>

\* lines 140-176: page.evaluate returns blob; it is parsed and merged, and
\* search goes on, without suspending, to the test of its loop: another
\* scroll, or the truncation and the return
ExtractState(blob, sink_fails) ==
    /\ pc = "state_eval"
    /\ LET acc == merge_initial_state(blob, sink_fails,
                                      Acc(all_feeds[callNo], seen_ids[callNo]))
       IN  /\ seen_ids' = [seen_ids EXCEPT ![callNo] = acc.seen_ids]
           /\ LoopTest(acc.all_feeds)
    /\ delivered' = Worked(StateDelivery("ready", blob, sink_fails), "handled")
    /\ UNCHANGED <<callNo, max_items, filters, internal_filters, click_i,
                   clicked, hovered, inflight, offered, dup_rejected, missed,
                   tool, tags>>

\* lines 110 and 149-176: the wait for window.__INITIAL_STATE__ times out;
\* the except clause of line 149 takes it and search goes on to the test of
\* its loop
StateTimeout ==
    /\ pc = "state_wait"
    /\ Throw("PlaywrightTimeoutError")
    /\ delivered' = Worked(StateDelivery("timeout", StateBlob("empty", <<>>), FALSE),
                           IF Handler(pc, "PlaywrightTimeoutError") = "except_state"
                           THEN "handled" ELSE "raised")
    /\ UNCHANGED <<callNo, max_items, filters, internal_filters, click_i,
                   clicked, hovered, inflight, seen_ids, offered, dup_rejected,
                   missed, tool, tags>>

\* an awaited step of search raises; the timeout of line 110 is StateTimeout
OtherAwaitRaises(exc) ==
    /\ ~(pc = "state_wait" /\ exc = "PlaywrightTimeoutError")
    /\ AwaitRaises(exc)

NextProducers ==
    \/ \E u \in BOOLEAN, st \in {200, 500} : Deliver(u, st)
    \/ \E u \in BOOLEAN, st \in {200, 500}, body \in ProducerBodies : Respond(u, st, body)
    \/ WaitLoad2
    \/ StateWait
    \/ \E blob \in ProducerBlobs, sink_fails \in BOOLEAN : ExtractState(blob, sink_fails)
    \/ StateTimeout
    \/ Scroll \/ ScrollDelay \/ WaitLoad3 \/ Stable
    \/ \E exc \in AwaitErrors : OtherAwaitRaises(exc)

SpecProducers == InitProducers /\ [][NextProducers]_vars

(***************************************************************************)
(* mcp_tools.py: the tool xiaohongshu_search_feeds (lines 548-616).        *)
(* tool.pc is the statement the tool is at, tool.events the calls it has   *)
(* made in order, tool.browser the state of the browser of its             *)
(* BrowserManager, tool.ret what it returned.  Each awaited call returns   *)
(* or raises.                                                              *)
(***************************************************************************)
\* filterStr: None or empty ("none"), the JSON of a FilterOption ("json"),
\* or a string json.loads or FilterOption(**data) rejects ("bad")
ToolFilterStrs == {"none", "json", "bad"}

\* what check_user_login_status returns: a dict whose "valid" is True,
\* False, or absent
LoginChecks == {"valid", "invalid", "no_key"}

\* a test of line 575 whose default for an absent "valid" is True
LoginValidDefaultTrue(login_check) == login_check # "invalid"

\* line 575: login_check.get("valid", False)
LoginValid(login_check) ==
    IF login_check = "no_key" THEN FALSE ELSE login_check = "valid"

InitTool ==
    /\ callNo = 0
    /\ pc = "idle"
    /\ max_items = 0
    /\ filters = <<>>
    /\ internal_filters = <<>>
    /\ click_i = 0
    /\ clicked = <<>>
    /\ hovered = FALSE
    /\ listeners = {}
    /\ inflight = [c \in Calls |-> 0]
    /\ all_feeds = [c \in Calls |-> <<>>]
    /\ seen_ids = [c \in Calls |-> {}]
    /\ offered = [c \in Calls |-> <<>>]
    /\ dup_rejected = FALSE
    /\ missed = FALSE
    /\ delivered = NoDelivery
    /\ tool \in {[NoTool EXCEPT !.pc = "parse_filter", !.filterStr = fs,
                                 !.username = u, !.max_items = m] :
                     fs \in ToolFilterStrs, u \in {NoneValue, "", "user"},
                     m \in MaxItemsInputs}
    /\ tags = NoTags
    /\ outcome = "none"
    /\ result = NoResult

\* the variables of the harvest, which the tool does not touch
ToolFrame ==
    UNCHANGED <<callNo, pc, max_items, filters, internal_filters, click_i,
                clicked, hovered, listeners, inflight, all_feeds, seen_ids,
                offered, dup_rejected, missed, delivered, tags, outcome, result>>

\* lines 610-616: the except clause of the tool returns the error dict
ToolError(t) == [t EXCEPT !.pc = "returned", !.ret = "error"]

\* lines 567-569: filterStr is parsed when it is given
ToolParseFilter ==
    /\ tool.pc = "parse_filter"
    /\ tool' = IF tool.filterStr = "bad" THEN ToolError(tool)
               ELSE [tool EXCEPT !.pc = "login_check"]
    /\ ToolFrame

\* lines 574-577: check_user_login_status returns login_check; the tool
\* returns it when it is not valid
ToolLoginCheck(login_check) ==
    /\ tool.pc = "login_check"
    /\ LET t == [tool EXCEPT !.login = login_check,
                             !.events = Append(@, "login_check")]
       IN  tool' = IF LoginValid(login_check)
                   THEN [t EXCEPT !.pc = "start"]
                   ELSE [t EXCEPT !.pc = "returned", !.ret = "login_check"]
    /\ ToolFrame

\* line 584: browser_manager.start() returns
ToolStart ==
    /\ tool.pc = "start"
    /\ tool' = [tool EXCEPT !.pc = "load_cookies", !.browser = "running",
                            !.events = Append(@, "start")]
    /\ ToolFrame

\* line 587: browser_manager.load_cookies() returns
ToolLoadCookies ==
    /\ tool.pc = "load_cookies"
    /\ tool' = [tool EXCEPT !.pc = "search", !.events = Append(@, "load_cookies")]
    /\ ToolFrame

\* lines 590-605: service.search_content returns and the success dict is
\* built, or it raises (ok = FALSE); the finally clause comes next
ToolSearch(ok) ==
    /\ tool.pc = "search"
    /\ tool' = [tool EXCEPT !.pc = "stop", !.events = Append(@, "search"),
                            !.ret = IF ok THEN "success" ELSE "error"]
    /\ ToolFrame

\* lines 607-608: browser_manager.stop() in the finally clause; when it
\* raises (ok = FALSE) the except clause of line 610 returns the error dict
ToolStop(ok) ==
    /\ tool.pc = "stop"
    /\ tool' = [tool EXCEPT !.pc = "returned", !.browser = "stopped",
                            !.events = Append(@, "stop"),
                            !.ret = IF ok THEN @ ELSE "error"]
    /\ ToolFrame

\* the call the tool awaits at lines 574, 584 or 587 raises: the except
\* clause of line 610 takes it, outside the try of lines 590-608
ToolAwaitRaises ==
    /\ tool.pc \in {"login_check", "start", "load_cookies"}
    /\ tool' = ToolError([tool EXCEPT !.events = Append(@, tool.pc)])
    /\ ToolFrame

NextTool ==
    \/ ToolParseFilter
    \/ \E login_check \in LoginChecks : ToolLoginCheck(login_check)
    \/ ToolStart
    \/ ToolLoadCookies
    \/ \E ok \in BOOLEAN : ToolSearch(ok)
    \/ \E ok \in BOOLEAN : ToolStop(ok)
    \/ ToolAwaitRaises

SpecTool == InitTool /\ [][NextTool]_vars

(***************************************************************************)
(* mcp_tools.py: normalize_tags (lines 29-67).  A string is the sequence   *)
(* of its characters; " " stands for every whitespace character.           *)
(***************************************************************************)
\* str.lstrip() and str.rstrip()
RECURSIVE LStrip(_)
LStrip(str) ==
    IF str # <<>> /\ Head(str) = " " THEN LStrip(Tail(str)) ELSE str

RECURSIVE RStrip(_)
RStrip(str) ==
    IF str # <<>> /\ str[Len(str)] = " "
    THEN RStrip(SubSeq(str, 1, Len(str) - 1)) ELSE str

\* str.strip()
Strip(str) == RStrip(LStrip(str))

\* an element of the list: a str, or another value with the characters
\* str(tag) gives
TagElem(type, chars) == [type |-> type, chars |-> chars]

\* lines 56-57: `if not isinstance(tag, str): tag = str(tag)`
ToStr(elem) == elem.chars

\* lines 59-65 on one tag: <<the cleaned tag>>, or <<>> when nothing is added
normalize_tag(str) ==
    LET tag == Strip(str)
    IN  IF tag = <<>> THEN <<>>
        ELSE LET tag2 == IF Head(tag) = "#" THEN Strip(Tail(tag)) ELSE tag
             IN  IF tag2 = <<>> THEN <<>> ELSE <<tag2>>

\* the for loop of lines 55-65
RECURSIVE NormalizeLoop(_)
NormalizeLoop(items) ==
    IF items = <<>> THEN <<>>
    ELSE normalize_tag(ToStr(Head(items))) \o NormalizeLoop(Tail(items))

\* normalize_tags: None and a value that is no list give []
normalize_tags(input) ==
    IF input.kind = "list" THEN NormalizeLoop(input.items) ELSE <<>>

\* tags as a caller may pass them
TagElems ==
    { TagElem("str", <<"a">>), TagElem("str", <<"#", "a">>),
      TagElem("str", <<"#", "#", "a">>), TagElem("str", <<" ", "#", "a", " ">>),
      TagElem("str", <<"#", " ", "a">>), TagElem("str", <<"#">>),
      TagElem("str", <<" ">>), TagElem("str", <<>>),
      TagElem("str", <<"a", " ", "b">>), TagElem("str", <<"a", "#">>),
      TagElem("str", <<"#", " ", "#", "b">>), TagElem("int", <<"7">>) }

TagInputs ==
    {[kind |-> "None", items |-> <<>>], [kind |-> "not_list", items |-> <<>>]}
        \cup {[kind |-> "list", items |-> l] :
                 l \in UNION {[1..n -> TagElems] : n \in 0..MaxTags}}

InitTags ==
    /\ callNo = 0
    /\ pc = "idle"
    /\ max_items = 0
    /\ filters = <<>>
    /\ internal_filters = <<>>
    /\ click_i = 0
    /\ clicked = <<>>
    /\ hovered = FALSE
    /\ listeners = {}
    /\ inflight = [c \in Calls |-> 0]
    /\ all_feeds = [c \in Calls |-> <<>>]
    /\ seen_ids = [c \in Calls |-> {}]
    /\ offered = [c \in Calls |-> <<>>]
    /\ dup_rejected = FALSE
    /\ missed = FALSE
    /\ delivered = NoDelivery
    /\ tool = NoTool
    /\ tags \in {[NoTags EXCEPT !.pc = "called", !.input = i] : i \in TagInputs}
    /\ outcome = "none"
    /\ result = NoResult

TagsFrame ==
    UNCHANGED <<callNo, pc, max_items, filters, internal_filters, click_i,
                clicked, hovered, listeners, inflight, all_feeds, seen_ids,
                offered, dup_rejected, missed, delivered, tool, outcome, result>>

\* normalize_tags(tags) returns
NormalizeTags ==
    /\ tags.pc = "called"
    /\ tags' = [tags EXCEPT !.pc = "normalized", !.output = normalize_tags(tags.input)]
    /\ TagsFrame

\* normalize_tags is applied to the list it returned
NormalizeAgain ==
    /\ tags.pc = "normalized"
    /\ tags' = [tags EXCEPT
                   !.pc = "renormalized",
                   !.again = normalize_tags(
                       [kind |-> "list",
                        items |-> [k \in 1..Len(tags.output) |->
                                      TagElem("str", tags.output[k])]])]
    /\ TagsFrame

NextTags == NormalizeTags \/ NormalizeAgain

SpecTags == InitTags /\ [][NextTags]_vars

(***************************************************************************)
(* Properties.                                                             *)
(***************************************************************************)
Ids(feeds) == {feeds[k].id : k \in 1..Len(feeds)}

NoRepeatedId(feeds) ==
    \A i, j \in 1..Len(feeds) : i # j => feeds[i].id # feeds[j].id

Running == pc \notin {"idle", "done"}

\* C1: in every interleaving of the listener callbacks and the initial-state
\* merge, the accumulated sequence of a call never holds two items of one id
\* (an offer of an id already in seen_ids inserts nothing).
C1_NoDuplicateIds ==
    \A c \in Calls : NoRepeatedId(all_feeds[c]) /\ Len(all_feeds[c]) = Cardinality(Ids(all_feeds[c]))

\* an offer with an id already seen was made and the accumulator holds two items
C1_Witness ==
    /\ dup_rejected
    /\ Len(all_feeds[callNo]) >= 2
    /\ Running

\* C2: until finalize the accumulated sequence is the sequence of the first
\* offers of each id, in the order of the offers of both producers, it only
\* grows by appending, and for a repeated id the first item offered is kept.
C2_FirstOfferOrder ==
    [][ /\ (pc' # "done" => all_feeds'[callNo'] = offered'[callNo'])
        /\ (pc # "done" /\ pc' # "done" /\ callNo' = callNo
               => IsPrefix(all_feeds[callNo], all_feeds'[callNo])) ]_vars

\* both records of id "a" were offered, "t1" first, after the card-less
\* record of id "b": the accumulator keeps b, then a with payload t1
C2_Witness ==
    /\ Running
    /\ dup_rejected
    /\ all_feeds[callNo] = <<Feed("b", ""), Feed("a", "t1")>>

\* C3: every call of search eventually returns, also when the platform stops
\* delivering new items while the count is below max_items.
C3_EveryCallReturns == Running ~> (pc = "done")

\* C4: once search has returned, on whatever path, its handle_response is not
\* attached to the page; only the running call can have a listener attached.
C4_ListenerDetached ==
    /\ (~Running => listeners = {})
    /\ listeners \subseteq {callNo}

\* a second call has returned through the failure path after its listener
\* had collected items
C4_Witness ==
    /\ pc = "done"
    /\ callNo = 2
    /\ result.kind \in {"timeout", "error"}
    /\ result.items # <<>>

\* C5: no option whose tags_index is 1 is among the options search applies
\* to the UI.
C5_NoIndexOneApplied ==
    /\ \A k \in 1..Len(clicked) : clicked[k].tags_index # 1
    /\ (pc \in {"hover", "panel_wait", "click", "click_delay"}
           => \A k \in 1..Len(internal_filters) : internal_filters[k].tags_index # 1)

\* C6: no item with an empty id is in an accumulator or in a returned result.
C6_NoEmptyId ==
    /\ \A c \in Calls : "" \notin Ids(all_feeds[c])
    /\ "" \notin Ids(result.items)

\* the ids of the records of RawItems that have no noteCard key; no other
\* record of RawItems has one of these ids
CardlessIds == {DictGet(r.id, "") : r \in {x \in RawItems : x.noteCard.kind = "absent"}}

\* C7: a record with no noteCard is normalized to None, so that no item of
\* such a record is ever in the accumulator, whichever producer offered it.
C7_NoCardlessItem ==
    \A c \in Calls : Ids(all_feeds[c]) \cap CardlessIds = {}

\* C8: when search returns normally its items are the first max_items
\* distinct ids, in encounter order, of everything offered, and total is the
\* number of items.
C8_FirstMaxItems ==
    (pc = "done" /\ result.kind = "normal")
        => /\ result.items = Take(offered[callNo], max_items)
           /\ result.total = Len(result.items)

\* C9: at finalize, an accumulator of more than max_items items is returned
\* as its first max_items items in order, and one of at most max_items items
\* is returned whole.
C9_TruncationKeepsPrefix ==
    [][ (pc # "done" /\ pc' = "done" /\ result'.kind = "normal")
          => LET acc == offered'[callNo]
             IN  /\ (Len(acc) > max_items => result'.items = Take(acc, max_items))
                 /\ (Len(acc) <= max_items => result'.items = acc) ]_vars

\* C10: no exception escapes search: a call that has ended has returned a
\* result value.
C10_NoExceptionEscapes ==
    /\ outcome # "raised"
    /\ (pc = "done" => outcome = "returned")

\* an unexpected exception of an awaited step was turned into a result
C10_Witness ==
    /\ pc = "done"
    /\ result.kind = "error"
    /\ outcome = "returned"

\* C11: when search returns through one of its two failure paths (a timeout
\* or any other exception of a browser step), the items of the result are
\* exactly the accumulated sequence at the failure, every first offer made so
\* far and nothing else, and has_more is false.
C11_FailureCarriesAccumulated ==
    [][ (pc # "done" /\ pc' = "done" /\ result'.kind \in {"timeout", "error"})
          => /\ result'.items = all_feeds[callNo]
             /\ result'.items = offered[callNo]
             /\ result'.has_more = FALSE ]_vars

\* the first call timed out after its listener had collected items
C11_Witness ==
    /\ pc = "done"
    /\ callNo = 1
    /\ result.kind = "timeout"
    /\ result.items # <<>>
    /\ result.items = all_feeds[callNo]

\* C12: when the translation of the filters raises ValueError, search returns
\* at once a result with no item and has_more false that carries the error,
\* and in that call no filter control was hovered or clicked, no listener was
\* registered, and nothing was merged from the state blob or a response.
C12_FilterErrorEndsCall ==
    [][ /\ (/\ pc = "filters" /\ pc' # "filters"
            /\ filters # <<>>
            /\ convert_to_internal_filters(filters[1]).raised)
              => /\ pc' = "done"
                 /\ outcome' = "returned"
                 /\ result'.kind = "filter_error"
                 /\ result'.items = <<>>
                 /\ result'.has_more = FALSE
        /\ (result'.kind = "filter_error"
              => /\ pc' = "done"
                 /\ ~hovered'
                 /\ clicked' = <<>>
                 /\ callNo' \notin listeners'
                 /\ all_feeds'[callNo'] = <<>>
                 /\ offered'[callNo'] = <<>>) ]_vars

\* a call whose selection has an unknown label has returned the filter error
C12_Witness ==
    /\ pc = "done"
    /\ filters # <<>>
    /\ convert_to_internal_filters(filters[1]).raised
    /\ result = FilterErrorResult
    /\ outcome = "returned"

\* the value of the field of group g of a FilterOption
FieldOf(f, g) ==
    CASE g = 1 -> f.sort_by
      [] g = 2 -> f.note_type
      [] g = 3 -> f.publish_time
      [] g = 4 -> f.search_scope
      [] g = 5 -> f.location

\* label is the value of the field of group g and no other field of f is set
OnlyField(f, g, label) ==
    \A h \in 1..5 : IF h = g THEN FieldOf(f, h) = label
                                ELSE FieldOf(f, h) \in {NoneValue, ""}

\* the labels of group g of the table
LabelsOf(g) == {FILTER_OPTIONS_MAP[g][k].text : k \in 1..Len(FILTER_OPTIONS_MAP[g])}

\* C13: for every group g and every label at position k of that group in
\* FILTER_OPTIONS_MAP, a selection whose only set field is that label is
\* translated to the one option (g, k); search goes on with exactly that
\* option unless k is 1.
C13_SingleLabelTranslation ==
    filters # <<>> =>
        \A g \in 1..5 : \A k \in 1..Len(FILTER_OPTIONS_MAP[g]) :
            OnlyField(filters[1], g, FILTER_OPTIONS_MAP[g][k].text)
              => LET r == convert_to_internal_filters(filters[1])
                 IN  /\ ~r.raised
                     /\ Len(r.list) = 1
                     /\ r.list[1].filters_index = g
                     /\ r.list[1].tags_index = k
                     /\ r.list[1].text = FILTER_OPTIONS_MAP[g][k].text
                     /\ (pc # "filters" /\ k # 1 => internal_filters = r.list)

\* the selection whose only field is the fourth label of group 3 was
\* translated and its control was clicked
C13_Witness ==
    /\ pc = "click_delay"
    /\ OnlyField(filters[1], 3, "bannian_nei")
    /\ clicked = <<InternalFilterOption(3, 4, "bannian_nei")>>

\* a set field of f holds a label that is not in its group of the table
HasUnknownLabel(f) ==
    \E g \in 1..5 : FieldOf(f, g) \notin {NoneValue, ""} \cup LabelsOf(g)

\* C14: a selection with an unknown label in any set field is not translated
\* at all, whatever its other fields hold: the translation raises and gives
\* no list, and search hovers and clicks nothing for that selection and ends
\* with the filter error.
C14_UnknownLabelFailsWhole ==
    (filters # <<>> /\ HasUnknownLabel(filters[1]))
        => /\ convert_to_internal_filters(filters[1]).raised
           /\ convert_to_internal_filters(filters[1]).list = <<>>
           /\ internal_filters = <<>>
           /\ ~hovered
           /\ clicked = <<>>
           /\ pc \in {"filters", "done"}
           /\ (pc = "done" => result.kind = "filter_error")

\* a selection with three valid labels and one unknown label ended the call
C14_Witness ==
    /\ pc = "done"
    /\ filters = <<FilterOption("zuixin", "shipin", "bucunzai", NoneValue, "fujin")>>
    /\ result.kind = "filter_error"
    /\ clicked = <<>>

StrictlyAscending(list) ==
    \A i, j \in 1..Len(list) : i < j => list[i].filters_index < list[j].filters_index

\* C15: for every selection the options search clicks are in strictly
\* ascending filters_index, so at most one per group; so is the list
\* _apply_filters returned, of which the clicks are a prefix in order.
C15_ClicksAscending ==
    /\ StrictlyAscending(clicked)
    /\ StrictlyAscending(internal_filters)
    /\ IsPrefix(clicked, internal_filters)

\* five fields set, the option of index 1 of group 2 elided, four clicks
C15_Witness ==
    /\ filters = <<FilterOption("zuixin", "buxian", "yitian_nei", "yikanguo", "fujin")>>
    /\ Len(clicked) = 4
    /\ clicked[4].filters_index = 5

\* the sizes of the five groups as the specification lists them
GroupSizes == <<5, 3, 4, 4, 3>>

\* C16: validate_internal_filter_option accepts an option exactly when its
\* filters_index is in 1..5 and its tags_index in 1..size of that group, the
\* sizes being 5, 3, 4, 4, 3; every entry of FILTER_OPTIONS_MAP passes, and
\* the tags_index of the entries of a group are exactly 1..size.
C16_ValidateExactRange ==
    /\ pc = "validated"
          => LET o == internal_filters[1]
             IN  (outcome = "returned")
                    <=> (/\ o.filters_index \in 1..5
                         /\ o.tags_index \in 1..GroupSizes[o.filters_index])
    /\ DOMAIN FILTER_OPTIONS_MAP = 1..5
    /\ \A g \in 1..5 :
          /\ Len(FILTER_OPTIONS_MAP[g]) = GroupSizes[g]
          /\ \A k \in 1..GroupSizes[g] :
                /\ FILTER_OPTIONS_MAP[g][k].filters_index = g
                /\ FILTER_OPTIONS_MAP[g][k].tags_index = k
                /\ validate_internal_filter_option(FILTER_OPTIONS_MAP[g][k])

\* the option (2, 4), one past the size of group 2, was rejected
C16_Witness ==
    /\ pc = "validated"
    /\ internal_filters[1].filters_index = 2
    /\ internal_filters[1].tags_index = 4
    /\ outcome = "raised"

\* C17: every option search clicks was handed to
\* validate_internal_filter_option by _apply_filters and passed it.
C17_ClickedWereValidated ==
    \A k \in 1..Len(clicked) :
        /\ clicked[k] \in apply_filters(filters[1]).checked
        /\ validate_internal_filter_option(clicked[k])

\* C18: no search-API response with status 200 that the page emits between
\* the end of the navigation and the return of search goes unhandled: a
\* handle_response of the call is attached whenever one is emitted.
C18_NoResponseMissed == missed = FALSE

\* the waits with a timeout of their own: lines 85, 110 and 164
BoundedWaits == {"panel_wait", "state_wait", "stable"}

\* C19: a timeout of the wait for the filter panel, for the state blob or for
\* the stability of the page never sends search through its timeout path.
C19_BoundedWaitNeverAborts ==
    [][ ~(pc \in BoundedWaits /\ pc' = "done" /\ result'.kind = "timeout") ]_vars

\* C20: while a call runs, at each of its awaits and between any two steps
\* of handle_response and search, seen_ids is exactly the set of the ids of
\* all_feeds, each id once, and every id offered so far is in it.
C20_SeenIdsAreTheIds ==
    Running
        => /\ seen_ids[callNo] = Ids(all_feeds[callNo])
           /\ Cardinality(seen_ids[callNo]) = Len(all_feeds[callNo])
           /\ Ids(offered[callNo]) = seen_ids[callNo]

\* search is suspended in its scroll loop with two items accumulated, an
\* offer of a seen id rejected and a handle_response pending
C20_Witness ==
    /\ pc = "scroll_delay"
    /\ inflight[callNo] > 0
    /\ dup_rejected
    /\ Cardinality(seen_ids[callNo]) = 2

\* a producer ends its work in this step: a suspended handle_response ends,
\* or delivered changes (a handle_response that ends at line 52, the
\* extraction of the state); delivered' is what it worked on
Handled == delivered' # delivered \/ inflight'[callNo] < inflight[callNo]

\* the records a producer iterates in delivered: the items of a matching
\* response with an items list, the feeds of a state blob that has them
BatchOf(d) ==
    CASE d.src = "response" /\ d.url_match /\ d.status = 200 /\ d.body.kind = "items"
            -> d.body.items
      [] d.src = "state" /\ d.wait = "ready" /\ d.blob.kind = "feeds"
            -> d.blob.feeds_value
      [] OTHER -> <<>>

\* a record that cannot be normalized: its noteCard is null
Malformed(r) == r.noteCard.kind = "null"

Normalizable(r) == ~Malformed(r)

\* the feeds of the normalizable records of a batch, in batch order
GoodFeeds(items) ==
    LET good == SelectSeq(items, Normalizable)
    IN  [k \in 1..Len(good) |-> convert_item_to_feed(good[k])[1]]

\* the feeds of a batch the accumulator takes: those of its normalizable
\* records whose id is not in seen, the first of each id, in batch order
NewFeeds(batch, seen) ==
    LET Fresh(f) == f.id \notin seen
    IN  FirstOffers(<<>>, SelectSeq(GoodFeeds(batch), Fresh))

\* all_feeds at the end of a step of search that began with line 140 and
\* left it holding feeds: line 169 truncates it when the call returns
AtStepEnd(feeds) ==
    IF pc # "done" /\ pc' = "done" THEN Truncate(feeds, max_items) ELSE feeds

\* C21: when a batch, of a response or of the state blob, holds a record
\* that cannot be normalized, the accumulator grows by every other record of
\* the batch that normalizes and has a new id, in batch order, wherever the
\* malformed record stands in the batch.
C21_MalformedRecordSkipped ==
    [][ (Handled /\ \E k \in 1..Len(BatchOf(delivered')) : Malformed(BatchOf(delivered')[k]))
          => LET new == NewFeeds(BatchOf(delivered'), seen_ids[callNo])
                 grown == all_feeds[callNo] \o new
             IN  /\ all_feeds'[callNo] =
                       IF delivered'.src = "state" THEN AtStepEnd(grown) ELSE grown
                 /\ seen_ids'[callNo] =
                       seen_ids[callNo] \cup {new[k].id : k \in 1..Len(new)}
                 /\ delivered'.state = "handled" ]_vars

\* a response whose first record has a null noteCard was handled and the
\* record after it is in the accumulator
C21_Witness ==
    /\ delivered.state = "handled"
    /\ delivered.src = "response"
    /\ BatchOf(delivered) = <<RawItem("n", "null", NoKey), RawItem("a", "dict", "t1")>>
    /\ all_feeds[callNo] = <<Feed("a", "t1")>>

\* C22: a failure inside handle_response (response.json() raises, the body
\* has not the expected shape, no record of it normalizes) adds nothing to
\* the accumulator, leaves no exception to the caller of handle_response,
\* and leaves search where it was with its listener as it was.
C22_ListenerFailureSwallowed ==
    [][ (/\ Handled
         /\ delivered'.src = "response"
         /\ Matches(delivered'.url_match, delivered'.status)
         /\ \/ delivered'.body.kind \in {"json_error", "bad_shape"}
            \/ /\ BatchOf(delivered') # <<>>
               /\ \A k \in 1..Len(BatchOf(delivered')) : Malformed(BatchOf(delivered')[k]))
          => /\ all_feeds' = all_feeds
             /\ seen_ids' = seen_ids
             /\ delivered'.state = "handled"
             /\ pc' = pc
             /\ listeners' = listeners
             /\ outcome' = outcome
             /\ result' = result ]_vars

\* a response whose json() raises was handled after items had been
\* collected, while search is suspended with its listener attached
C22_Witness ==
    /\ delivered.state = "handled"
    /\ delivered.src = "response"
    /\ delivered.url_match /\ delivered.status = 200
    /\ delivered.body.kind = "json_error"
    /\ all_feeds[callNo] # <<>>
    /\ callNo \in listeners
    /\ pc = "state_eval"

\* C23: when the wait for the state blob times out, the evaluation gives the
\* empty string or the blob is no JSON, the extraction leaves all_feeds and
\* seen_ids as the listener left them and search goes on to its scroll loop:
\* to another scroll, or, the test of the loop failing, to its normal return.
C23_BlobUnavailableAddsNothing ==
    [][ (/\ Handled
         /\ delivered'.src = "state"
         /\ \/ delivered'.wait = "timeout"
            \/ delivered'.blob.kind \in {"empty", "malformed"})
          => /\ seen_ids' = seen_ids
             /\ delivered'.state = "handled"
             /\ \/ /\ pc' = "scroll"
                   /\ all_feeds' = all_feeds
                   /\ outcome' = "none"
                \/ /\ pc' = "done"
                   /\ Len(all_feeds[callNo]) >= max_items
                   /\ outcome' = "returned"
                   /\ result' = NormalResult(Truncate(all_feeds[callNo], max_items)) ]_vars

\* a blob that is no JSON was met after the listener had collected an item,
\* and search is in its scroll loop with that item
C23_Witness ==
    /\ delivered.state = "handled"
    /\ delivered.src = "state"
    /\ delivered.blob.kind = "malformed"
    /\ pc = "scroll"
    /\ Len(all_feeds[callNo]) = 1

\* C24: a call starts with all_feeds and seen_ids empty, whatever the calls
\* before it collected, and a handle_response of an earlier call that ends
\* during a later call changes no accumulator the later call reads.
C24_SessionPrivate ==
    [][ /\ (callNo' # callNo
               => all_feeds'[callNo'] = <<>> /\ seen_ids'[callNo'] = {})
        /\ \A c \in Calls :
              (c # callNo /\ inflight'[c] < inflight[c])
                 => /\ all_feeds'[callNo] = all_feeds[callNo]
                    /\ seen_ids'[callNo] = seen_ids[callNo] ]_vars

\* the second call has collected id "a" by itself while a handle_response of
\* the first call is still pending
C24_Witness ==
    /\ callNo = 2
    /\ Running
    /\ inflight[1] > 0
    /\ seen_ids[2] = {"a"}

\* C25: a normal return of search with at least one item has has_more true.
C25_HasMoreOnNormalReturn ==
    (pc = "done" /\ result.kind = "normal" /\ result.items # <<>>)
        => result.has_more = TRUE

\* a normal return with the one item asked for
C25_Witness ==
    /\ pc = "done"
    /\ result.kind = "normal"
    /\ max_items = 1
    /\ Len(result.items) = 1
    /\ result.has_more

\* the phase of search a position belongs to: 1 navigation, 2 filters,
\* 3 registration of the listener, 4 extraction of the initial state,
\* 5 scroll loop, 6 returned
PhaseOf(p) ==
    CASE p \in {"goto", "load1"} -> 1
      [] p \in {"filters", "hover", "panel_wait", "click", "click_delay"} -> 2
      [] p = "register" -> 3
      [] p \in {"load2", "state_wait", "state_eval"} -> 4
      [] p \in {"scroll", "scroll_delay", "load3", "stable"} -> 5
      [] p = "done" -> 6
      [] OTHER -> 0

\* C26: within a call the phases follow each other in the order navigation,
\* filters (skipped without filters), registration, extraction, scroll loop,
\* return, and never go back; the listener of the call is attached in the
\* extraction and scroll phases and in none before; the scroll loop is
\* entered from the end of the extraction only; the extraction is not
\* entered again.
C26_PhaseOrder ==
    [][ /\ (callNo' = callNo => PhaseOf(pc') >= PhaseOf(pc))
        /\ (PhaseOf(pc') \in {4, 5} => callNo' \in listeners')
        /\ (PhaseOf(pc') \in {1, 2, 3} => callNo' \notin listeners')
        /\ (pc' = "filters" /\ pc # "filters" => pc = "load1")
        /\ (pc' = "register" /\ pc # "register"
               => pc \in {"filters", "panel_wait", "click_delay"})
        /\ (pc' = "load2" /\ pc # "load2" => pc = "register")
        /\ (pc' = "state_eval" /\ pc # "state_eval" => pc = "state_wait")
        /\ (pc' = "scroll" /\ pc # "scroll"
               => pc \in {"state_wait", "state_eval", "stable"}) ]_vars

\* a call with filters has clicked them, registered, merged the state blob
\* and is in its scroll loop
C26_Witness ==
    /\ pc = "load3"
    /\ clicked # <<>>
    /\ callNo \in listeners
    /\ all_feeds[callNo] # <<>>

\* C27: a scroll iteration starts only with fewer than max_items items
\* accumulated, and search leaves the loop test for its normal return only
\* with at least max_items items: none started when the count is there.
C27_ScrollOnlyBelowMax ==
    [][ /\ (pc # "scroll" /\ pc' = "scroll"
               => Len(all_feeds'[callNo']) < max_items')
        /\ (/\ pc \in {"state_wait", "state_eval", "stable"}
            /\ pc' = "done" /\ result'.kind = "normal")
               => Len(offered'[callNo]) >= max_items ]_vars

\* search waits for a scroll it started with one item of the two asked for
C27_Witness ==
    /\ pc = "scroll"
    /\ max_items = 2
    /\ Len(all_feeds[callNo]) = 1

\* C28: handle_response leaves all_feeds and seen_ids as they are for a
\* response whose url has not the search-API path or whose status is not 200.
C28_OtherResponsesIgnored ==
    [][ (/\ Handled
         /\ delivered'.src = "response"
         /\ ~(delivered'.url_match /\ delivered'.status = 200))
          => /\ all_feeds' = all_feeds
             /\ seen_ids' = seen_ids ]_vars

\* a response of the search-API path with status 500 was handled after an
\* item had been collected, and no handle_response is suspended
C28_Witness ==
    /\ delivered.state = "handled"
    /\ delivered.src = "response"
    /\ delivered.url_match
    /\ delivered.status = 500
    /\ inflight[callNo] = 0
    /\ Len(all_feeds[callNo]) = 1

\* the groups whose field of f is set
SetGroups(f) == {g \in 1..5 : FieldOf(f, g) \notin {NoneValue, ""}}

\* C29: convert_to_internal_filters gives one option for each set field of
\* the selection, with the label of that field, none for a field that is
\* None or empty, in ascending order of the groups; FilterOption() has its
\* five fields set and gives five options, each of tags_index 1.
C29_OneOptionPerSetField ==
    /\ LET f == filters[1]
           r == convert_to_internal_filters(f)
       IN  /\ r.raised <=> HasUnknownLabel(f)
           /\ ~r.raised
                 => /\ Len(r.list) = Cardinality(SetGroups(f))
                    /\ {r.list[k].filters_index : k \in 1..Len(r.list)} = SetGroups(f)
                    /\ StrictlyAscending(r.list)
                    /\ \A k \in 1..Len(r.list) :
                          r.list[k].text = FieldOf(f, r.list[k].filters_index)
    /\ SetGroups(DefaultFilterOption) = 1..5
    /\ convert_to_internal_filters(DefaultFilterOption) =
          [raised |-> FALSE,
           list |-> [g \in 1..5 |-> InternalFilterOption(g, 1, FieldOf(DefaultFilterOption, g))]]

\* a selection with two empty fields was translated to the options of its
\* three set fields, and search goes on with the two of them it keeps
C29_Witness ==
    /\ pc = "click"
    /\ filters = <<FilterOption("", "shipin", "", "buxian", "fujin")>>
    /\ Len(internal_filters) = 2

\* C30: the harvest is the same whether the writing of the files succeeds or
\* fails: with a failing sink the extraction step leaves the accumulator it
\* leaves with a working one, and no exception leaves it.
C30_SinkFailureHarmless ==
    [][ (/\ Handled
         /\ delivered'.src = "state"
         /\ delivered'.wait = "ready"
         /\ delivered'.sink_fails)
          => LET acc == merge_initial_state(delivered'.blob, FALSE,
                                            Acc(all_feeds[callNo], seen_ids[callNo]))
                 new == NewFeeds(BatchOf(delivered'), seen_ids[callNo])
             IN  /\ all_feeds'[callNo] = AtStepEnd(acc.all_feeds)
                 /\ seen_ids'[callNo] = acc.seen_ids
                 /\ all_feeds'[callNo] = AtStepEnd(all_feeds[callNo] \o new)
                 /\ delivered'.state = "handled" ]_vars

\* the files could not be written and the record of the blob was merged
C30_Witness ==
    /\ delivered.state = "handled"
    /\ delivered.src = "state"
    /\ delivered.sink_fails
    /\ delivered.blob = StateBlob("feeds", <<RawItem("a", "dict", "t1")>>)
    /\ all_feeds[callNo] = <<Feed("a", "t1")>>

\* C31, as amended: in a result of the normal return total is the number of
\* its items; in a result of the timeout path or of the unexpected-error
\* path total is 0, whatever items the result carries.
C31_TotalByPath ==
    (pc = "done" /\ outcome = "returned")
        => /\ (result.kind = "normal" => result.total = Len(result.items))
           /\ (result.kind \in {"timeout", "error"} => result.total = 0)

\* C31, as stated: in every result search returns, total is the number of
\* items of the result.
C31_TotalIsCount ==
    (pc = "done" /\ outcome = "returned") => result.total = Len(result.items)

\* an unexpected error ended a call that had collected two items
C31_Witness ==
    /\ pc = "done"
    /\ result.kind = "error"
    /\ Len(result.items) = 2
    /\ result.total = 0

\* C32: every result search returns for a max_items of 0 or more carries at
\* most max_items items, on the normal path and on the failure paths.
C32_AtMostMaxItems ==
    (pc = "done" /\ outcome = "returned" /\ max_items >= 0)
        => Len(result.items) <= max_items

\* C33: a normal return for max_items >= 0 carries exactly max_items items,
\* and a normal return for max_items <= 0 carries none.
C33_ExactlyMaxItems ==
    (pc = "done" /\ result.kind = "normal")
        => /\ (max_items >= 0 => Len(result.items) = max_items)
           /\ (max_items <= 0 => result.items = <<>>)

\* C34: every browser the tool xiaohongshu_search_feeds started is stopped
\* before the tool returns, on every path.
C34_BrowserStopped == tool.pc = "returned" => tool.browser # "running"

\* the calls the tool has made include the search
ToolSearched == \E k \in 1..Len(tool.events) : tool.events[k] = "search"

\* C35: when the login check is not valid the tool returns the result of the
\* login check, having started no browser and run no search; a search runs
\* only after a valid login check, the start of the browser and the loading
\* of the cookies, in that order.
C35_LoginGate ==
    /\ tool.login \in {"invalid", "no_key"}
          => /\ tool.pc = "returned"
             /\ tool.ret = "login_check"
             /\ tool.events = <<"login_check">>
             /\ tool.browser = "none"
    /\ ToolSearched
          => /\ tool.login = "valid"
             /\ SubSeq(tool.events, 1, 4)
                   = <<"login_check", "start", "load_cookies", "search">>

\* C35 witness: the login check returned a dict without "valid" and the tool
\* returned it.
C35_Witness ==
    tool.pc = "returned" /\ tool.login = "no_key" /\ tool.ret = "login_check"

\* sub occurs in str as a run of consecutive characters
IsSubstring(sub, str) ==
    \E i \in 0..(Len(str) - Len(sub)) : SubSeq(str, i + 1, i + Len(sub)) = sub

\* out keeps the relative order of ins: its tags come from elements of ins
\* at ascending places
KeepsOrder(out, ins) ==
    \E f \in [1..Len(out) -> 1..Len(ins)] :
        /\ \A k \in 1..Len(out) : IsSubstring(out[k], ToStr(ins[f[k]]))
        /\ \A k \in 1..(Len(out) - 1) : f[k] < f[k + 1]

\* C36: no tag normalize_tags returns starts with "#", is empty, or has
\* leading or trailing whitespace; the tags keep their relative order; and
\* normalize_tags applied to its own output returns that output.
C36_TagsClean ==
    tags.pc = "renormalized"
        => /\ \A k \in 1..Len(tags.output) :
                  /\ tags.output[k] # <<>>
                  /\ Head(tags.output[k]) \notin {"#", " "}
                  /\ tags.output[k][Len(tags.output[k])] # " "
           /\ Len(tags.output) > 0 => KeepsOrder(tags.output, tags.input.items)
           /\ tags.again = tags.output

====
